---- MODULE Spec2Model ----
(***************************************************************************)
(* A model of nodes/monitor.go: the NodeMonitor lifecycle (NewMonitor,     *)
(* Start, Stop, loop), one monitoring cycle (doChecks), the divergence     *)
(* finder (findSplit), the pair iterator (forPairs) and the header store   *)
(* (blockDB.add / blockDB.get).                                            *)
(***************************************************************************)
EXTENDS Integers, Sequences, FiniteSets, TLC

(***************************************************************************)
(* Bounds of the model.                                                    *)
(***************************************************************************)
\* findSplit is explored for every num in 0..MaxNum
MaxNum == 4
\* hashes are drawn from 1..NumHashes
NumHashes == 2
\* forPairs is explored for every list of at most MaxElems distinct nodes
MaxElems == 4
\* the header store is explored with keys 1..NumKeys
NumKeys == 2
\* header fields are drawn from 0..MaxField
MaxField == 1
\* the monitor is configured with at most NumNodes nodes
NumNodes == 3
\* a node's head is drawn from 0..MaxHeight
MaxHeight == 2

Hashes == 1..NumHashes

\* the nil pointer (*blockInfo, *types.Header)
Nil == [nil |-> TRUE]

VARIABLES
    \* ---- findSplit applied to bounded inputs
    sNum,       \* argument num
    sA,         \* node a's HashAt, a function on 0..num-1
    sB,         \* node b's HashAt, a function on 0..num-1
    sRes,       \* the value returned
    sDone,      \* whether findSplit has returned
    \* ---- forPairs applied to bounded inputs
    elems,      \* argument elems (a list of distinct nodes)
    pairPos,    \* the loop variables <<i, j>> (0-based, as in the source)
    calls,      \* the calls fn(a, b) made so far, in order
    \* ---- blockDB
    db,         \* the leveldb contents: key -> encoded header
    dbFirst,    \* history: key -> the header of the first add for that key
    dbReadd,    \* history: the keys added again with another header
    dbGot,      \* the last get: [called, key, hdr, first]
    \* ---- NodeMonitor
    nodes,      \* mon.nodes, the configured list
    hasBackend, \* mon.backend != nil
    status,     \* each Node's status (SetStatus)
    headNum,    \* each Node's HeadNum()
    mainPc,     \* the caller: NewMonitor, Start, Stop
    probeIdx,   \* NewMonitor's position in its health-check loop
    loopPc,     \* the goroutine running loop()
    quitClosed, \* mon.quitCh is closed
    timerFired, \* the channel of the pending time.After is ready
    wg,         \* mon.wg's counter
    frame,      \* the locals and position of each running doChecks
    gauge,      \* the chain/split gauge
    reportFile, \* whether www/data.json has been written
    files,      \* www/hashes/: the hashes that have a file
    stopMidCycle, \* history: Stop closed quitCh while the loop was in doChecks
    overwrites, \* history: the hashes whose file was written while it existed
    cyclesAfterStop \* history: the cycles the loop began with quitCh closed

pureVars == <<sNum, sA, sB, sRes, sDone, elems, pairPos, calls, db, dbFirst, dbReadd, dbGot>>

splitVars == <<sNum, sA, sB, sRes, sDone>>
pairsVars == <<elems, pairPos, calls>>
dbVars == <<db, dbFirst, dbReadd, dbGot>>
monVars == <<nodes, hasBackend, status, headNum, mainPc, probeIdx, loopPc,
             quitClosed, timerFired, wg, frame, gauge, reportFile, files,
             stopMidCycle, overwrites, cyclesAfterStop>>

vars == <<pureVars, monVars>>

Min(x, y) == IF x < y THEN x ELSE y

(***************************************************************************)
(* findSplit (sort.Search over [0, num) with the predicate                 *)
(* a.HashAt(i) != b.HashAt(i)).                                            *)
(***************************************************************************)

\* A plausible slip: the upper half is kept when the hashes differ.
findSplitInverted(num, a, b) ==
    LET RECURSIVE loop(_, _)
        loop(i, j) ==
            IF i < j
            THEN LET h == (i + j) \div 2
                 IN  IF a[h] # b[h] THEN loop(h + 1, j) ELSE loop(i, h)
            ELSE i
    IN  loop(0, num)

\* A plausible slip: the last height with equal hashes is returned instead
\* of the first height with different ones.
findSplitLastEqual(num, a, b) ==
    LET RECURSIVE loop(_, _)
        loop(i, j) ==
            IF i < j
            THEN LET h == (i + j) \div 2
                 IN  IF ~(a[h] # b[h]) THEN loop(h + 1, j) ELSE loop(i, h)
            ELSE i
        r == loop(0, num)
    IN  IF r > 0 THEN r - 1 ELSE r

\* sort.Search: i, j := 0, n; for i < j { h := (i+j)/2; if !f(h) { i = h+1 }
\* else { j = h } }; return i.  A negative n returns 0.
findSplit(num, a, b) ==
    LET RECURSIVE loop(_, _)
        loop(i, j) ==
            IF i < j
            THEN LET h == (i + j) \div 2
                 IN  IF ~(a[h] # b[h]) THEN loop(h + 1, j) ELSE loop(i, h)
            ELSE i
    IN  loop(0, num)

SplitIdle ==
    /\ sNum = 0
    /\ sA = <<>>
    /\ sB = <<>>
    /\ sRes = 0
    /\ sDone = FALSE

SplitInit ==
    /\ sNum \in 0..MaxNum
    /\ sA \in [0..(sNum - 1) -> Hashes]
    /\ sB \in [0..(sNum - 1) -> Hashes]
    /\ sRes = 0
    /\ sDone = FALSE

CallFindSplit ==
    /\ ~sDone
    /\ sDone' = TRUE
    /\ sRes' = findSplit(sNum, sA, sB)
    /\ UNCHANGED <<sNum, sA, sB>>

(***************************************************************************)
(* forPairs: for i := 0; i < len; i++ { for j := i+1; j < len; j++ {...} } *)
(***************************************************************************)

\* the loop variables once both loops have ended
forPairsDone(n) == <<n, n>>

\* A plausible slip: the inner loop starts at j = i.
forPairsFirstFromI(n) == IF 0 < n THEN <<0, 0>> ELSE forPairsDone(n)

\* the loop variables at the first call of fn, or forPairsDone
forPairsFirst(n) == IF 1 < n THEN <<0, 1>> ELSE forPairsDone(n)

\* A plausible slip: the outer loop stops one short (i < len - 1 is right,
\* i < len - 2 is not).
forPairsNextShort(pos, n) ==
    LET i == pos[1]
        j == pos[2]
    IN  IF j + 1 < n THEN <<i, j + 1>>
        ELSE IF i + 3 < n THEN <<i + 1, i + 2>>
        ELSE forPairsDone(n)

\* the loop variables at the next call of fn after the call at pos
forPairsNext(pos, n) ==
    LET i == pos[1]
        j == pos[2]
    IN  IF j + 1 < n THEN <<i, j + 1>>
        ELSE IF i + 2 < n THEN <<i + 1, i + 2>>
        ELSE forPairsDone(n)

InjectiveSeqs(S, maxLen) ==
    UNION { { s \in [1..n -> S] : \A x, y \in 1..n : x # y => s[x] # s[y] }
            : n \in 0..maxLen }

PairsIdle ==
    /\ elems = <<>>
    /\ pairPos = forPairsDone(0)
    /\ calls = <<>>

PairsInit ==
    /\ elems \in InjectiveSeqs(1..MaxElems, MaxElems)
    /\ pairPos = forPairsFirst(Len(elems))
    /\ calls = <<>>

\* one call fn(elems[i], elems[j])
CallFn ==
    /\ pairPos # forPairsDone(Len(elems))
    /\ calls' = Append(calls, <<elems[pairPos[1] + 1], elems[pairPos[2] + 1]>>)
    /\ pairPos' = forPairsNext(pairPos, Len(elems))
    /\ UNCHANGED elems

(***************************************************************************)
(* blockDB: add and get over the leveldb contents, headers RLP-encoded.    *)
(***************************************************************************)
Keys == 1..NumKeys
Headers == [number : 0..MaxField, extra : {0, 1}]

\* rlp of an unsigned integer below 128: 0 is the empty string (0x80), any
\* other value is its own single byte
rlpUint(x) == IF x = 0 THEN <<128>> ELSE <<x>>

\* rlp.EncodeToBytes(h): a list header (0xc0 + payload length) and the fields
rlpEncode(h) ==
    LET payload == rlpUint(h.number) \o rlpUint(h.extra)
    IN  <<192 + Len(payload)>> \o payload

rlpItem(byte) == IF byte = 128 THEN 0 ELSE byte

DecodeError == [error |-> TRUE]
Panic == [panic |-> TRUE]

\* rlp.DecodeBytes(data, &h): an error when data is no two-field list
rlpDecode(data) ==
    IF /\ Len(data) = 3
       /\ data[1] = 192 + 2
       /\ \A k \in 2..3 : data[k] <= 128
    THEN [number |-> rlpItem(data[2]), extra |-> rlpItem(data[3])]
    ELSE DecodeError

\* A plausible slip: no Has check, every add overwrites.
addOverwrite(store, key, h) ==
    [k \in (DOMAIN store) \cup {key} |->
        IF k = key THEN rlpEncode(h) ELSE store[k]]

\* blockDB.add: a key already present is left alone
add(store, key, h) ==
    IF key \in DOMAIN store
    THEN store
    ELSE [k \in (DOMAIN store) \cup {key} |->
              IF k = key THEN rlpEncode(h) ELSE store[k]]

\* blockDB.get: nil when absent, a panic when the stored bytes do not decode
get(store, key) ==
    IF key \notin DOMAIN store
    THEN Nil
    ELSE IF rlpDecode(store[key]) = DecodeError THEN Panic
         ELSE rlpDecode(store[key])

EmptyMap == [k \in {} |-> 0]

DBIdle ==
    /\ db = EmptyMap
    /\ dbFirst = EmptyMap
    /\ dbReadd = {}
    /\ dbGot = [called |-> FALSE, key |-> 0, hdr |-> Nil, first |-> Nil]

CallAdd(key, h) ==
    /\ db' = add(db, key, h)
    /\ dbFirst' = IF key \in DOMAIN dbFirst
                  THEN dbFirst
                  ELSE [k \in (DOMAIN dbFirst) \cup {key} |->
                            IF k = key THEN h ELSE dbFirst[k]]
    /\ dbReadd' = IF key \in DOMAIN dbFirst /\ dbFirst[key] # h
                  THEN dbReadd \cup {key}
                  ELSE dbReadd
    /\ UNCHANGED dbGot

CallGet(key) ==
    /\ dbGot' = [called |-> TRUE, key |-> key, hdr |-> get(db, key),
                 first |-> IF key \in DOMAIN dbFirst THEN dbFirst[key] ELSE Nil]
    /\ UNCHANGED <<db, dbFirst, dbReadd>>

(***************************************************************************)
(* NodeMonitor: the data of one doChecks call.                             *)
(***************************************************************************)
Heights == 0..MaxHeight
Executors == {"ctor", "loop"}

\* BlockAt returns nil (0 here) or a block with a hash
Blocks == 0..NumHashes

NoPair == [a |-> 0, b |-> 0, highest |-> 0, kind |-> "none", split |-> 0,
           len |-> 0]

\* doChecks' locals before its first statement; pc = "idle" when no call of
\* doChecks is running for the executor
IdleFrame ==
    [pc |-> "idle",
     k |-> 0,                \* index of the node polled next (line 97)
     pos |-> <<0, 0>>,       \* forPairs' i, j
     splitSize |-> 0,        \* line 84
     heads |-> {},           \* line 95
     activeNodes |-> <<>>,   \* line 96
     headList |-> <<>>,      \* line 150
     hashes |-> <<>>,        \* r.Hashes still to export (line 178)
     \* history of the call
     polled |-> <<>>,        \* per polled node: TRUE when UpdateLatest failed
     prior |-> "none",       \* the status, before its poll, of the node
                             \* polled last (kept for one step)
     last |-> NoPair,        \* the last pair compared
     divSplits |-> {},       \* the split heights of the diverging pairs
     divLens |-> {},         \* the split lengths of the diverging pairs
     searches |-> 0]         \* the calls of findSplit

\* A plausible slip: the health probe's result inverted.
probeStatusInverted(err) == IF err THEN "OK" ELSE "Unreachable"

\* NewMonitor's health check (lines 36-41)
probeStatus(err) == IF err THEN "Unreachable" ELSE "OK"

\* A plausible slip: a node that was unreachable stays unreachable.
pollStatusSticky(old, err) ==
    IF err \/ old = "Unreachable" THEN "Unreachable" ELSE "OK"

\* doChecks' status update after UpdateLatest (lines 100-105); old is the
\* node's status before the poll
pollStatus(old, err) == IF err THEN "Unreachable" ELSE "OK"

\* A plausible slip: the head of a node is recorded even when its poll
\* failed.
pollLocalsAlways(f, n, err, num) ==
    [f EXCEPT !.activeNodes = IF err THEN @ ELSE Append(@, n),
              !.heads = @ \cup {num}]

\* doChecks' locals after polling node n (lines 100-109)
pollLocals(f, n, err, num) ==
    IF err
    THEN f
    ELSE [f EXCEPT !.activeNodes = Append(@, n),
                   !.heads = @ \cup {num}]

\* A plausible slip: the larger head is taken.
commonHorizonMax(x, y) == IF x < y THEN y ELSE x

\* highest := a.HeadNum(); if b.HeadNum() < highest { highest = b.HeadNum() }
commonHorizon(x, y) == IF y < x THEN y ELSE x

\* A plausible slip: the length counts the split block itself.
splitLengthInclusive(highest, split) == highest - split + 1

\* splitLength := int64(int(highest) - split)
splitLength(highest, split) == highest - split

\* A plausible slip: the predecessor is added without the split > 0 test;
\* uint64(split-1) of 0 is then 2^64-1, written -1 here.
comparePairNoGuard(st, highest, ha, hb, hashA, hashB) ==
    IF ha = 0 \/ hb = 0 \/ ha = hb
    THEN st
    ELSE LET split == findSplit(highest, hashA, hashB)
             len == splitLength(highest, split)
         IN  [heads |-> st.heads \cup {split, split - 1},
              splitSize |-> IF st.splitSize < len THEN len ELSE st.splitSize,
              searches |-> st.searches + 1]

\* A plausible slip: the split size is overwritten by each diverging pair
\* instead of keeping the largest.
comparePairLastWins(st, highest, ha, hb, hashA, hashB) ==
    IF ha = 0 \/ hb = 0 \/ ha = hb
    THEN st
    ELSE LET split == findSplit(highest, hashA, hashB)
             len == splitLength(highest, split)
         IN  [heads |-> st.heads \cup {split}
                            \cup (IF split > 0 THEN {split - 1} ELSE {}),
              splitSize |-> len,
              searches |-> st.searches + 1]

\* A plausible slip: a missing block of b is not tested, and the nil block
\* compares as different from a's.
comparePairNoNilCheck(st, highest, ha, hb, hashA, hashB) ==
    IF ha = 0 \/ ha = hb
    THEN st
    ELSE LET split == findSplit(highest, hashA, hashB)
             len == splitLength(highest, split)
         IN  [heads |-> st.heads \cup {split}
                            \cup (IF split > 0 THEN {split - 1} ELSE {}),
              splitSize |-> IF st.splitSize < len THEN len ELSE st.splitSize,
              searches |-> st.searches + 1]

\* the callback of forPairs (lines 121-146) on st = [heads, splitSize,
\* searches]; ha, hb are the two BlockAt results, hashA, hashB the nodes'
\* HashAt
comparePair(st, highest, ha, hb, hashA, hashB) ==
    IF ha = 0
    THEN st
    ELSE IF hb = 0
    THEN st
    ELSE IF ha = hb
    THEN st
    ELSE LET split == findSplit(highest, hashA, hashB)
             len == splitLength(highest, split)
         IN  [heads |-> st.heads \cup {split}
                            \cup (IF split > 0 THEN {split - 1} ELSE {}),
              splitSize |-> IF st.splitSize < len THEN len ELSE st.splitSize,
              searches |-> st.searches + 1]

SetMax(S) == CHOOSE x \in S : \A y \in S : y <= x

\* A plausible slip: the list is left ascending.
sortAscending(S) ==
    LET RECURSIVE asc(_)
        asc(T) == IF T = {} THEN <<>>
                  ELSE LET m == SetMax(T) IN Append(asc(T \ {m}), m)
    IN  asc(S)

\* headList: the keys of heads, sorted by sort.Reverse(sort.IntSlice)
\* (lines 150-154)
sortDescending(S) ==
    LET RECURSIVE desc(_)
        desc(T) == IF T = {} THEN <<>>
                   ELSE LET m == SetMax(T) IN <<m>> \o desc(T \ {m})
    IN  desc(S)

\* A plausible slip: the gauge is updated and the report built without the
\* pairs having been compared.
pcAfterPollsSkipPairs(n) == "gauge"

\* the first statement after the polling loop: forPairs, or line 149 when
\* forPairs has no pair to call
pcAfterPolls(n) ==
    IF forPairsFirst(n) = forPairsDone(n) THEN "gauge" ELSE "pairs"

\* doChecks entered: lines 84-96
BeginFrame ==
    IF Len(nodes) = 0
    THEN [IdleFrame EXCEPT !.pc = "gauge"]
    ELSE [IdleFrame EXCEPT !.pc = "poll", !.k = 1]

\* what a pair is, from its two blocks at the common horizon
pairKind(ha, hb) ==
    IF ha = 0 THEN "missingA"
    ELSE IF hb = 0 THEN "missingB"
    ELSE IF ha = hb THEN "equal"
    ELSE "split"

\* the step of executor e that takes its frame to f2; a frame back at "idle"
\* is doChecks returning to its caller
Step(e, f2) ==
    /\ frame' = [frame EXCEPT ![e] = f2]
    /\ IF f2.pc = "idle"
       THEN IF e = "ctor"
            THEN /\ mainPc' = IF mainPc = "checks" THEN "created" ELSE mainPc
                 /\ UNCHANGED loopPc
            ELSE /\ loopPc' = "select"
                 /\ UNCHANGED mainPc
       ELSE UNCHANGED <<mainPc, loopPc>>

(***************************************************************************)
(* doChecks, statement by statement.                                       *)
(***************************************************************************)

\* one iteration of the polling loop (lines 97-110)
Poll(e, err, num) ==
    LET f == frame[e]
        n == nodes[f.k]
        f1 == pollLocals(f, n, err, num)
        new == pollStatus(status[n], err)
        last == f.k = Len(nodes)
        f2 == [f1 EXCEPT
                 !.k = @ + 1,
                 !.pc = IF last THEN pcAfterPolls(Len(f1.activeNodes)) ELSE "poll",
                 !.pos = IF last THEN forPairsFirst(Len(f1.activeNodes)) ELSE @,
                 !.polled = Append(@, err),
                 !.prior = status[n]]
    IN  /\ f.pc = "poll"
        /\ status' = [status EXCEPT ![n] = new]
        /\ headNum' = IF err THEN headNum ELSE [headNum EXCEPT ![n] = num]
        /\ Step(e, f2)
        /\ UNCHANGED <<nodes, hasBackend, probeIdx, quitClosed, timerFired, wg,
                       gauge, reportFile, files, stopMidCycle,
                   overwrites, cyclesAfterStop>>

\* one call of forPairs' callback (lines 113-148)
Compare(e, ha, hb, hashA, hashB) ==
    LET f == frame[e]
        n == Len(f.activeNodes)
        a == f.activeNodes[f.pos[1] + 1]
        b == f.activeNodes[f.pos[2] + 1]
        highest == commonHorizon(headNum[a], headNum[b])
        st == comparePair([heads |-> f.heads, splitSize |-> f.splitSize,
                           searches |-> f.searches],
                          highest, ha, hb, hashA, hashB)
        kind == pairKind(ha, hb)
        split == IF kind = "split" THEN findSplit(highest, hashA, hashB) ELSE 0
        next == forPairsNext(f.pos, n)
        f2 == [f EXCEPT
                 !.heads = st.heads,
                 !.splitSize = st.splitSize,
                 !.searches = st.searches,
                 !.pos = next,
                 !.pc = IF next = forPairsDone(n) THEN "gauge" ELSE "pairs",
                 !.prior = "none",
                 !.last = [a |-> a, b |-> b, highest |-> highest,
                           kind |-> kind, split |-> split,
                           len |-> IF kind = "split"
                                   THEN splitLength(highest, split) ELSE 0],
                 !.divSplits = IF kind = "split" THEN @ \cup {split} ELSE @,
                 !.divLens = IF kind = "split"
                             THEN @ \cup {Min(headNum[a], headNum[b]) - split}
                             ELSE @]
    IN  /\ f.pc = "pairs"
        /\ Step(e, f2)
        /\ UNCHANGED <<nodes, hasBackend, status, headNum, probeIdx, quitClosed,
                       timerFired, wg, gauge, reportFile, files, stopMidCycle,
                   overwrites, cyclesAfterStop>>

\* A plausible slip: the gauge keeps the largest split size seen so far.
UpdateGaugeCumulative(e) ==
    LET f == frame[e]
    IN  /\ f.pc = "gauge"
        /\ gauge' = IF gauge < f.splitSize THEN f.splitSize ELSE gauge
        /\ Step(e, [f EXCEPT !.pc = "report", !.prior = "none"])
        /\ UNCHANGED <<nodes, hasBackend, status, headNum, probeIdx, quitClosed,
                       timerFired, wg, reportFile, files, stopMidCycle,
                       overwrites, cyclesAfterStop>>

\* metrics.GetOrRegisterGauge("chain/split", registry).Update(splitSize)
\* (line 149)
UpdateGauge(e) ==
    LET f == frame[e]
    IN  /\ f.pc = "gauge"
        /\ gauge' = f.splitSize
        /\ Step(e, [f EXCEPT !.pc = "report", !.prior = "none"])
        /\ UNCHANGED <<nodes, hasBackend, status, headNum, probeIdx, quitClosed,
                       timerFired, wg, reportFile, files, stopMidCycle,
                   overwrites, cyclesAfterStop>>

\* r.Hashes: the hashes NewReport and AddToReport collect for export, in
\* ascending order
SeqOfSet(S) ==
    LET RECURSIVE asc(_)
        asc(T) == IF T = {} THEN <<>>
                  ELSE LET m == SetMax(T) IN Append(asc(T \ {m}), m)
    IN  asc(S)

HashLists == { SeqOfSet(S) : S \in SUBSET Keys }

\* A plausible slip: the test of mon.backend is missing, the report is
\* written to www/data.json whether or not there is a backend.
BuildReportNoBackendTest(e, marshalOk, hs) ==
    LET f == frame[e]
        f1 == [f EXCEPT !.headList = sortDescending(f.heads), !.hashes = hs]
    IN  /\ f.pc = "report"
        /\ IF ~marshalOk
           THEN Step(e, IdleFrame)
           ELSE Step(e, [f1 EXCEPT !.pc = "write"])
        /\ UNCHANGED <<nodes, hasBackend, status, headNum, probeIdx, quitClosed,
                       timerFired, wg, gauge, reportFile, files, stopMidCycle,
                       overwrites, cyclesAfterStop>>

\* lines 150-166: the head list, the report, its JSON, the return when the
\* JSON fails, and the test of mon.backend
BuildReport(e, marshalOk, hs) ==
    LET f == frame[e]
        f1 == [f EXCEPT !.headList = sortDescending(f.heads), !.hashes = hs]
    IN  /\ f.pc = "report"
        /\ IF ~marshalOk
           THEN Step(e, IdleFrame)
           ELSE IF ~hasBackend
           THEN Step(e, [f1 EXCEPT !.pc = "print"])
           ELSE Step(e, [f1 EXCEPT !.pc = "write"])
        /\ UNCHANGED <<nodes, hasBackend, status, headNum, probeIdx, quitClosed,
                       timerFired, wg, gauge, reportFile, files, stopMidCycle,
                   overwrites, cyclesAfterStop>>

\* no backend: r.Print(); fmt.Println(string(jsd)); return (lines 166-172)
PrintReport(e) ==
    LET f == frame[e]
    IN  /\ f.pc = "print"
        /\ Step(e, IdleFrame)
        /\ UNCHANGED <<nodes, hasBackend, status, headNum, probeIdx, quitClosed,
                       timerFired, wg, gauge, reportFile, files, stopMidCycle,
                       overwrites, cyclesAfterStop>>

\* ioutil.WriteFile("www/data.json", jsd, 0777) (lines 173-176)
WriteReport(e, ok) ==
    LET f == frame[e]
    IN  /\ f.pc = "write"
        /\ IF ok
           THEN /\ reportFile' = TRUE
                /\ Step(e, IF f.hashes = <<>> THEN IdleFrame
                           ELSE [f EXCEPT !.pc = "export"])
           ELSE /\ UNCHANGED reportFile
                /\ Step(e, IdleFrame)
        /\ UNCHANGED <<nodes, hasBackend, status, headNum, probeIdx, quitClosed,
                       timerFired, wg, gauge, files, stopMidCycle,
                   overwrites, cyclesAfterStop>>

ExportOutcomes == {"missing", "marshalFail", "writeFail", "ok"}

\* A plausible slip: the os.Stat test is dropped and the file is written
\* again.
exportWritesAlways(fs, hash, outcome) == outcome = "ok"

\* whether the iteration writes the file of hash (lines 179-192): the header
\* is in the store, no file exists yet, the header marshals and the write
\* succeeds
exportWrites(fs, hash, outcome) == outcome = "ok" /\ hash \notin fs

\* one iteration of the export loop (lines 178-197)
Export(e, outcome) ==
    LET f == frame[e]
        hash == Head(f.hashes)
        rest == Tail(f.hashes)
        stop == outcome = "writeFail" /\ hash \notin files
    IN  /\ f.pc = "export"
        /\ files' = IF exportWrites(files, hash, outcome)
                    THEN files \cup {hash} ELSE files
        /\ overwrites' = IF exportWrites(files, hash, outcome) /\ hash \in files
                         THEN overwrites \cup {hash} ELSE overwrites
        /\ Step(e, IF stop \/ rest = <<>> THEN IdleFrame
                   ELSE [f EXCEPT !.hashes = rest])
        /\ UNCHANGED <<nodes, hasBackend, status, headNum, probeIdx, quitClosed,
                       timerFired, wg, gauge, reportFile, stopMidCycle,
                       cyclesAfterStop>>

(***************************************************************************)
(* NewMonitor, Start, Stop, loop.                                          *)
(***************************************************************************)

\* one iteration of NewMonitor's health check (lines 34-43)
HealthProbe(err) ==
    /\ mainPc = "probe"
    /\ probeIdx <= Len(nodes)
    /\ status' = [status EXCEPT ![nodes[probeIdx]] = probeStatus(err)]
    /\ probeIdx' = probeIdx + 1
    /\ UNCHANGED <<nodes, hasBackend, headNum, mainPc, loopPc, quitClosed,
                   timerFired, wg, frame, gauge, reportFile, files, stopMidCycle,
                   overwrites, cyclesAfterStop>>

\* A plausible slip: go nm.doChecks(), NewMonitor returns at once.
NewMonitorChecksAsync ==
    /\ mainPc = "probe"
    /\ probeIdx > Len(nodes)
    /\ mainPc' = "created"
    /\ frame' = [frame EXCEPT !["ctor"] = BeginFrame]
    /\ UNCHANGED <<nodes, hasBackend, status, headNum, probeIdx, loopPc,
                   quitClosed, timerFired, wg, gauge, reportFile, files, stopMidCycle,
                   overwrites, cyclesAfterStop>>

\* NewMonitor after the health check: nm.doChecks() is entered, and
\* NewMonitor returns when it has returned (lines 44-54)
NewMonitorChecks ==
    /\ mainPc = "probe"
    /\ probeIdx > Len(nodes)
    /\ mainPc' = "checks"
    /\ frame' = [frame EXCEPT !["ctor"] = BeginFrame]
    /\ UNCHANGED <<nodes, hasBackend, status, headNum, probeIdx, loopPc,
                   quitClosed, timerFired, wg, gauge, reportFile, files, stopMidCycle,
                   overwrites, cyclesAfterStop>>

\* Start: mon.wg.Add(1); go mon.loop() (lines 57-60)
Start ==
    /\ mainPc = "created"
    /\ mainPc' = "running"
    /\ wg' = wg + 1
    /\ loopPc' = "select"
    /\ UNCHANGED <<nodes, hasBackend, status, headNum, probeIdx, quitClosed,
                   timerFired, frame, gauge, reportFile, files, stopMidCycle,
                   overwrites, cyclesAfterStop>>

\* Stop: close(mon.quitCh) (line 63)
StopClose ==
    /\ mainPc = "running"
    /\ mainPc' = "waiting"
    /\ quitClosed' = TRUE
    /\ stopMidCycle' = (loopPc = "checks")
    /\ UNCHANGED <<nodes, hasBackend, status, headNum, probeIdx, loopPc,
                   timerFired, wg, frame, gauge, reportFile, files, overwrites,
                   cyclesAfterStop>>

\* A plausible slip: Stop without mon.wg.Wait().
StopReturnNoWait ==
    /\ mainPc = "waiting"
    /\ mainPc' = "stopped"
    /\ UNCHANGED <<nodes, hasBackend, status, headNum, probeIdx, loopPc,
                   quitClosed, timerFired, wg, frame, gauge, reportFile, files, stopMidCycle,
                   overwrites, cyclesAfterStop>>

\* Stop: mon.wg.Wait() returns (line 64)
StopReturn ==
    /\ mainPc = "waiting"
    /\ wg = 0
    /\ mainPc' = "stopped"
    /\ UNCHANGED <<nodes, hasBackend, status, headNum, probeIdx, loopPc,
                   quitClosed, timerFired, wg, frame, gauge, reportFile, files, stopMidCycle,
                   overwrites, cyclesAfterStop>>

\* the timer of the select's time.After(mon.reloadInterval) fires (line 73).
\* Every select starts a new timer, which fires when the interval has
\* passed; a select that finds quitCh closed chooses at once, before the
\* interval of its own timer can pass, so the timer fires only while the loop
\* waits with quitCh open.
TimerFire ==
    /\ loopPc = "select"
    /\ ~timerFired
    /\ ~quitClosed
    /\ timerFired' = TRUE
    /\ UNCHANGED <<nodes, hasBackend, status, headNum, mainPc, probeIdx, loopPc,
                   quitClosed, wg, frame, gauge, reportFile, files, stopMidCycle,
                   overwrites, cyclesAfterStop>>

\* A plausible slip: loop returns without mon.wg.Done() (the defer is
\* missing).
LoopQuitNoDone ==
    /\ loopPc = "select"
    /\ quitClosed
    /\ loopPc' = "done"
    /\ timerFired' = FALSE
    /\ UNCHANGED <<nodes, hasBackend, status, headNum, mainPc, probeIdx,
                   quitClosed, wg, frame, gauge, reportFile, files, stopMidCycle,
                   overwrites, cyclesAfterStop>>

\* loop: the select takes <-mon.quitCh, and the deferred mon.wg.Done() runs
\* (lines 68-72)
LoopQuit ==
    /\ loopPc = "select"
    /\ quitClosed
    /\ loopPc' = "done"
    /\ wg' = wg - 1
    /\ timerFired' = FALSE
    /\ UNCHANGED <<nodes, hasBackend, status, headNum, mainPc, probeIdx,
                   quitClosed, frame, gauge, reportFile, files, stopMidCycle,
                   overwrites, cyclesAfterStop>>

\* A plausible slip: a ticker made once before the loop instead of a new
\* time.After in every select; its next tick can be pending when doChecks
\* returns.
LoopTickTicker ==
    /\ loopPc = "select"
    /\ timerFired
    /\ loopPc' = "checks"
    /\ timerFired' = timerFired
    /\ frame' = [frame EXCEPT !["loop"] = BeginFrame]
    /\ cyclesAfterStop' = IF quitClosed THEN cyclesAfterStop + 1
                          ELSE cyclesAfterStop
    /\ UNCHANGED <<nodes, hasBackend, status, headNum, mainPc, probeIdx,
                   quitClosed, wg, gauge, reportFile, files, stopMidCycle,
                   overwrites>>

\* loop: the select takes the timer and calls mon.doChecks() (lines 73-74)
LoopTick ==
    /\ loopPc = "select"
    /\ timerFired
    /\ loopPc' = "checks"
    /\ timerFired' = FALSE
    /\ frame' = [frame EXCEPT !["loop"] = BeginFrame]
    /\ cyclesAfterStop' = IF quitClosed THEN cyclesAfterStop + 1
                          ELSE cyclesAfterStop
    /\ UNCHANGED <<nodes, hasBackend, status, headNum, mainPc, probeIdx,
                   quitClosed, wg, gauge, reportFile, files, stopMidCycle,
                   overwrites>>

NodeIds == 1..NumNodes

MonIdle ==
    /\ nodes = <<>>
    /\ hasBackend = FALSE
    /\ status = [n \in NodeIds |-> "none"]
    /\ headNum = [n \in NodeIds |-> 0]
    /\ mainPc = "off"
    /\ probeIdx = 1
    /\ loopPc = "none"
    /\ quitClosed = FALSE
    /\ timerFired = FALSE
    /\ wg = 0
    /\ frame = [e \in Executors |-> IdleFrame]
    /\ gauge = 0
    /\ reportFile = FALSE
    /\ files = {}
    /\ stopMidCycle = FALSE
    /\ overwrites = {}
    /\ cyclesAfterStop = 0

\* NewMonitor(nodes, db, reload) is called
MonInit ==
    /\ nodes \in { [k \in 1..n |-> k] : n \in 0..NumNodes }
    /\ hasBackend \in BOOLEAN
    /\ status = [n \in NodeIds |-> "none"]
    /\ headNum = [n \in NodeIds |-> 0]
    /\ mainPc = "probe"
    /\ probeIdx = 1
    /\ loopPc = "none"
    /\ quitClosed = FALSE
    /\ timerFired = FALSE
    /\ wg = 0
    /\ frame = [e \in Executors |-> IdleFrame]
    /\ gauge = 0
    /\ reportFile = FALSE
    /\ files = {}
    /\ stopMidCycle = FALSE
    /\ overwrites = {}
    /\ cyclesAfterStop = 0

\* the common horizon of the pair executor e compares next
PairHorizon(e) ==
    LET f == frame[e]
    IN  commonHorizon(headNum[f.activeNodes[f.pos[1] + 1]],
                      headNum[f.activeNodes[f.pos[2] + 1]])

\* one call of the callback on every answer the two nodes can give: the two
\* blocks at the common horizon (b is not asked when a has none) and, when
\* findSplit runs, the two nodes' hashes below it
ComparePair(e) ==
    /\ frame[e].pc = "pairs"
    /\ \E ha \in Blocks : \E hb \in (IF ha = 0 THEN {0} ELSE Blocks) :
           IF pairKind(ha, hb) = "split"
           THEN \E hashA \in [0..(PairHorizon(e) - 1) -> Hashes] :
                    \E hashB \in [0..(PairHorizon(e) - 1) -> Hashes] :
                        Compare(e, ha, hb, hashA, hashB)
           ELSE Compare(e, ha, hb, <<>>, <<>>)

Lifecycle ==
    \/ \E err \in BOOLEAN : HealthProbe(err)
    \/ NewMonitorChecks
    \/ Start
    \/ StopClose
    \/ StopReturn
    \/ TimerFire
    \/ LoopQuit
    \/ LoopTick

Checks(e) ==
    \/ \E err \in BOOLEAN : \E num \in (IF err THEN {0} ELSE Heights) :
           Poll(e, err, num)
    \/ ComparePair(e)
    \/ UpdateGauge(e)
    \/ \E marshalOk \in BOOLEAN : \E hs \in HashLists :
           BuildReport(e, marshalOk, hs)
    \/ PrintReport(e)
    \/ \E ok \in BOOLEAN : WriteReport(e, ok)
    \/ \E outcome \in ExportOutcomes : Export(e, outcome)

Init == MonInit /\ SplitIdle /\ PairsIdle /\ DBIdle

Next ==
    \/ Lifecycle /\ UNCHANGED <<splitVars, pairsVars, dbVars>>
    \/ \E e \in Executors : Checks(e) /\ UNCHANGED <<splitVars, pairsVars, dbVars>>

Spec == Init /\ [][Next]_vars

(***************************************************************************)
(* The monitor under a fair scheduler: the goroutine running loop() takes  *)
(* its next step whenever it has one (a select with a ready channel        *)
(* chooses, and every Node call and file operation of a cycle returns),    *)
(* and mon.wg.Wait() returns once the counter is 0.  Nothing makes the     *)
(* timer fire or the caller call Start or Stop.                            *)
(***************************************************************************)
LoopStep ==
    /\ \/ LoopQuit
       \/ LoopTick
       \/ Checks("loop")
    /\ UNCHANGED <<splitVars, pairsVars, dbVars>>

WaitStep == StopReturn /\ UNCHANGED <<splitVars, pairsVars, dbVars>>

Fairness == WF_vars(LoopStep) /\ WF_vars(WaitStep)

SpecLive == Init /\ [][Next]_vars /\ Fairness

(***************************************************************************)
(* The three-node scenario: A, B, C with heads 100, 100, 98; A and B agree *)
(* below height 50 and differ from 50 upward; C agrees with A.             *)
(***************************************************************************)
NodeA == nodes[1]
NodeB == nodes[2]
NodeC == nodes[3]

Scenario == [heads |-> <<100, 100, 98>>, fork |-> 50]

\* the hash node n reports at height h
ScenarioHash(n, h) == IF n = 2 /\ h >= Scenario.fork THEN 2 ELSE 1

ScenarioInit ==
    /\ MonInit
    /\ nodes = <<1, 2, 3>>

ScenarioChecks(e) ==
    \/ /\ frame[e].pc = "poll"
       /\ Poll(e, FALSE, Scenario.heads[nodes[frame[e].k]])
    \/ /\ frame[e].pc = "pairs"
       /\ LET f == frame[e]
              a == f.activeNodes[f.pos[1] + 1]
              b == f.activeNodes[f.pos[2] + 1]
              highest == commonHorizon(headNum[a], headNum[b])
          IN  Compare(e, ScenarioHash(a, highest), ScenarioHash(b, highest),
                      [h \in 0..(highest - 1) |-> ScenarioHash(a, h)],
                      [h \in 0..(highest - 1) |-> ScenarioHash(b, h)])
    \/ UpdateGauge(e)
    \/ \E marshalOk \in BOOLEAN : \E hs \in HashLists :
           BuildReport(e, marshalOk, hs)
    \/ PrintReport(e)
    \/ \E ok \in BOOLEAN : WriteReport(e, ok)
    \/ \E outcome \in ExportOutcomes : Export(e, outcome)

InitScenario == ScenarioInit /\ SplitIdle /\ PairsIdle /\ DBIdle

NextScenario ==
    \/ Lifecycle /\ UNCHANGED <<splitVars, pairsVars, dbVars>>
    \/ \E e \in Executors :
           ScenarioChecks(e) /\ UNCHANGED <<splitVars, pairsVars, dbVars>>

SpecScenario == InitScenario /\ [][NextScenario]_vars


(***************************************************************************)
(* Specifications of the pure parts.                                       *)
(***************************************************************************)
InitSplit == SplitInit /\ PairsIdle /\ DBIdle /\ MonIdle

NextSplit ==
    CallFindSplit /\ UNCHANGED <<pairsVars, dbVars, monVars>>

SpecSplit == InitSplit /\ [][NextSplit]_vars

InitPairs == PairsInit /\ SplitIdle /\ DBIdle /\ MonIdle

NextPairs ==
    CallFn /\ UNCHANGED <<splitVars, dbVars, monVars>>

SpecPairs == InitPairs /\ [][NextPairs]_vars

InitDB == DBIdle /\ SplitIdle /\ PairsIdle /\ MonIdle

NextDB ==
    \/ \E key \in Keys, h \in Headers :
           CallAdd(key, h) /\ UNCHANGED <<splitVars, pairsVars, monVars>>
    \/ \E key \in Keys :
           CallGet(key) /\ UNCHANGED <<splitVars, pairsVars, monVars>>

SpecDB == InitDB /\ [][NextDB]_vars

(***************************************************************************)
(* Properties.                                                             *)
(***************************************************************************)
Running(e) == frame[e].pc # "idle"

MaxOrZero(S) == IF S = {} THEN 0 ELSE SetMax(S)

\* the heights a diverging pair with split height s adds to heads
Boundary(s) == IF s > 0 THEN {s, s - 1} ELSE {s}

ActiveHeads(f) == { headNum[f.activeNodes[i]] : i \in 1..Len(f.activeNodes) }

\* C1: when Stop() has returned, the loop has exited and no doChecks is in
\* progress: a cycle in flight when Stop was called has returned, and none
\* runs afterwards.
C1_StopWaitsForCycle ==
    mainPc = "stopped" =>
        /\ loopPc = "done"
        /\ wg = 0
        /\ \A e \in Executors : ~Running(e)

\* C1 witness: Stop was called during a cycle of the loop, and has returned.
C1_Witness ==
    /\ mainPc = "stopped"
    /\ stopMidCycle
    /\ loopPc = "done"
    /\ ~Running("loop")

\* C2: at most one doChecks is in progress at any moment, the constructor's
\* cycle and the loop's cycles together.
C2_CyclesNeverOverlap ==
    /\ ~(Running("ctor") /\ Running("loop"))
    /\ Running("ctor") => mainPc = "checks" /\ loopPc = "none"
    /\ Running("loop") <=> loopPc = "checks"

\* C2 witness: a cycle of the loop is comparing pairs, after the
\* constructor's cycle.
C2_Witness ==
    /\ frame["loop"].pc = "pairs"
    /\ ~Running("ctor")
    /\ mainPc = "running"

\* C3: for a list of n distinct nodes, forPairs calls fn exactly n*(n-1)/2
\* times, once for each unordered pair, never with a node paired with itself
\* and never twice for the same unordered pair.
C3_PairsExactlyOnce ==
    LET n == Len(elems)
        pair(k) == {calls[k][1], calls[k][2]}
    IN  /\ \A k \in 1..Len(calls) : calls[k][1] # calls[k][2]
        /\ \A k, l \in 1..Len(calls) : k # l => pair(k) # pair(l)
        /\ pairPos = forPairsDone(n) =>
              /\ Len(calls) * 2 = n * (n - 1)
              /\ \A x, y \in 1..n :
                    x # y => \E k \in 1..Len(calls) : pair(k) = {elems[x], elems[y]}

\* C3 witness: forPairs has returned on an unsorted list of three or more
\* nodes.
C3_Witness ==
    /\ Len(elems) >= 3
    /\ elems[1] > elems[2]
    /\ pairPos = forPairsDone(Len(elems))
    /\ Len(calls) >= 3

\* C4: when the hashes are equal at every height in [0, k) and different at
\* every height in [k, N), findSplit(N, a, b) returns k, for every k in 0..N.
C4_FindSplitReturnsK ==
    sDone =>
        \A k \in 0..sNum :
            (/\ \A i \in 0..(k - 1) : sA[i] = sB[i]
             /\ \A i \in k..(sNum - 1) : sA[i] # sB[i])
            => sRes = k

\* C4 witness: the hashes differ at the last height only (k = N-1), N >= 3.
C4_Witness ==
    /\ sDone
    /\ sNum >= 3
    /\ \A i \in 0..(sNum - 2) : sA[i] = sB[i]
    /\ sA[sNum - 1] # sB[sNum - 1]
    /\ sRes = sNum - 1

\* C5: the cycle's split size is the largest, over the diverging pairs, of
\* (smaller head of the pair) - (split height), 0 when no pair diverges, and
\* that is the value the gauge holds once line 149 has run.
C5_SplitSizeIsMax ==
    \A e \in Executors :
        LET f == frame[e]
        IN  /\ Running(e) => f.splitSize = MaxOrZero(f.divLens)
            /\ f.pc \in {"report", "write", "export"} =>
                  gauge = MaxOrZero(f.divLens)

\* C5 witness: two pairs diverged with different split lengths and the gauge
\* holds the larger.
C5_Witness ==
    \E e \in Executors :
        /\ frame[e].pc = "report"
        /\ Cardinality(frame[e].divLens) >= 2
        /\ frame[e].last.kind = "split"
        /\ frame[e].last.highest - frame[e].last.split < gauge
        /\ gauge = SetMax(frame[e].divLens)

\* C6: when the comparison step has ended, heads holds the head of every
\* active node and, for every diverging pair, its split height and, when that
\* is above 0, the height below it; it holds nothing else, so no underflowed
\* value for a split height of 0.
C6_HeadsOfInterest ==
    \A e \in Executors :
        LET f == frame[e]
        IN  f.pc = "gauge" =>
              /\ ActiveHeads(f) \subseteq f.heads
              /\ \A s \in f.divSplits :
                    s \in f.heads /\ (s > 0 => (s - 1) \in f.heads)
              /\ f.heads = ActiveHeads(f) \cup UNION { Boundary(s) : s \in f.divSplits }
              /\ \A h \in f.heads : h >= 0

\* C6 witness: one pair split at height 0 and another above it.
C6_Witness ==
    \E e \in Executors :
        /\ frame[e].pc = "gauge"
        /\ 0 \in frame[e].divSplits
        /\ \E s \in frame[e].divSplits : s > 0 /\ (s - 1) \in frame[e].heads

C8_StatusFollowsPoll ==
    \A e \in Executors :
        LET f == frame[e]
        IN  /\ Running(e) =>
                \A i \in 1..Len(f.polled) :
                    status[nodes[i]] = IF f.polled[i] THEN "Unreachable" ELSE "OK"
            /\ f.pc \notin {"idle", "poll"} => Len(f.polled) = Len(nodes)

\* C8 witness: in a cycle of the loop the last node was Unreachable before
\* its poll and is OK after it, and another node's poll failed.
C8_Witness ==
    LET f == frame["loop"]
    IN  /\ f.pc \in {"pairs", "gauge"}
        /\ f.prior = "Unreachable"
        /\ status[nodes[Len(nodes)]] = "OK"
        /\ \E i \in 1..Len(f.polled) : f.polled[i]

\* C10: a pair with a missing block at the common horizon adds no height,
\* leaves the split size alone and runs no search, and forPairs goes on to
\* the next pair; every other pair contributes what its own blocks and hashes
\* give.
C10_Step ==
    \A e \in Executors :
        LET f == frame[e]
            g == frame'[e]
            r == g.last
        IN  f.pc = "pairs" /\ g # f =>
              /\ g.pos = forPairsNext(f.pos, Len(f.activeNodes))
              /\ r.kind \in {"missingA", "missingB", "equal"} =>
                    /\ g.heads = f.heads
                    /\ g.splitSize = f.splitSize
                    /\ g.searches = f.searches
              /\ r.kind = "split" =>
                    /\ g.heads = f.heads \cup Boundary(r.split)
                    /\ g.splitSize = IF f.splitSize < r.highest - r.split
                                     THEN r.highest - r.split ELSE f.splitSize
                    /\ g.searches = f.searches + 1

C10_MissingBlockAbandonsPair == [][C10_Step]_vars

\* C10 witness: a pair was abandoned for a missing block in a cycle where an
\* earlier pair diverged and a later pair is still to be compared.
C10_Witness ==
    \E e \in Executors :
        /\ frame[e].pc = "pairs"
        /\ frame[e].last.kind \in {"missingA", "missingB"}
        /\ frame[e].divSplits # {}
        /\ frame[e].searches = 1


\* the outcome of the last pair, when it was the pair {x, y}
LastPairIs(f, x, y) == f.last.kind # "none" /\ {f.last.a, f.last.b} = {x, y}

\* the parts of the scenario's expected outcome that do not depend on the
\* pair (B, C)
ScenarioCommon(f) ==
    /\ LastPairIs(f, NodeA, NodeB) =>
          /\ f.last.kind = "split"
          /\ f.last.split = 50
          /\ f.last.highest - f.last.split = 50
    /\ LastPairIs(f, NodeA, NodeC) => f.last.kind = "equal"
    /\ f.pc = "gauge" => f.heads = {100, 98, 50, 49} /\ f.splitSize = 50
    /\ f.pc \in {"write", "export"} => f.headList = <<100, 98, 50, 49>>
    /\ f.pc \in {"report", "write", "export"} => gauge = 50

\* C9 as stated: in the scenario (A, B) splits at 50 with length 50, (A, C)
\* and (B, C) do not diverge, heads are 100, 98, 50, 49 in that order and the
\* split size is 50.
C9_Original ==
    \A e \in Executors :
        /\ ScenarioCommon(frame[e])
        /\ LastPairIs(frame[e], NodeB, NodeC) => frame[e].last.kind = "equal"

\* C9 amended: as stated, except that (B, C) diverges too, at height 50 with
\* split length 48 (C's head 98 is above the fork, where B differs from A and
\* so from C).
C9_ScenarioAmended ==
    \A e \in Executors :
        /\ ScenarioCommon(frame[e])
        /\ LastPairIs(frame[e], NodeB, NodeC) =>
              /\ frame[e].last.kind = "split"
              /\ frame[e].last.split = 50
              /\ frame[e].last.highest - frame[e].last.split = 48

\* C9 witness: the report of a scenario cycle is about to be written.
C9_Witness ==
    \E e \in Executors :
        /\ frame[e].pc = "write"
        /\ frame[e].headList = <<100, 98, 50, 49>>
        /\ gauge = 50
        /\ LastPairIs(frame[e], NodeB, NodeC)
        /\ frame[e].searches = 2

\* C11: a pair whose two blocks at the common horizon are present and have
\* equal hashes creates no divergence record (no height added, split size
\* untouched, no search); a pair whose blocks differ creates one, with
\* 0 <= splitHeight <= commonHorizon and splitLength = commonHorizon -
\* splitHeight >= 0, and its split height is recorded.
C11_Step ==
    \A e \in Executors :
        LET f == frame[e]
            g == frame'[e]
            r == g.last
        IN  f.pc = "pairs" /\ g # f =>
              /\ r.kind = "equal" =>
                    /\ g.heads = f.heads
                    /\ g.splitSize = f.splitSize
                    /\ g.divSplits = f.divSplits
                    /\ g.searches = f.searches
              /\ r.kind = "split" =>
                    /\ r.highest = Min(headNum[r.a], headNum[r.b])
                    /\ r.split \in 0..r.highest
                    /\ r.len = r.highest - r.split
                    /\ r.len >= 0
                    /\ r.split \in g.divSplits
                    /\ r.split \in g.heads
                    /\ g.splitSize >= r.len

C11_EqualOrBoundedSplit == [][C11_Step]_vars

\* C11 witness: a pair whose blocks differ at a common horizon above 0 while
\* the hashes agree at every height below it (splitHeight = commonHorizon,
\* splitLength 0), the only diverging pair of a cycle of three active nodes.
C11_Witness ==
    \E e \in Executors :
        /\ frame[e].last.kind = "split"
        /\ frame[e].last.highest > 0
        /\ frame[e].last.split = frame[e].last.highest
        /\ frame[e].last.len = 0
        /\ frame[e].searches = 1
        /\ frame[e].pos = forPairsDone(Len(frame[e].activeNodes))
        /\ Len(frame[e].activeNodes) = 3

\* the order of doChecks' steps
PcRank(pc) ==
    CASE pc = "idle" -> 0
      [] pc = "poll" -> 1
      [] pc = "pairs" -> 2
      [] pc = "gauge" -> 3
      [] pc = "report" -> 4
      [] pc = "print" -> 5
      [] pc = "write" -> 5
      [] pc = "export" -> 6

\* C12: within a cycle every node is polled, and its status set, before the
\* first pair is compared; every pair has been compared before the gauge is
\* updated and the report built; the report file is written before any
\* export file.  No step goes back, and each effect happens at its own step.
C12_Step ==
    /\ \A e \in Executors :
          LET f == frame[e]
              g == frame'[e]
          IN  /\ g.pc # "idle" => PcRank(g.pc) >= PcRank(f.pc)
              /\ f.pc \notin {"idle", "poll"} =>
                    /\ Len(f.polled) = Len(nodes)
                    /\ status' = status
                    /\ headNum' = headNum
              /\ f.pc \in {"idle", "poll"} /\ g.pc # "idle" =>
                    f.searches = 0 /\ f.last = NoPair
              /\ f.pc \in {"gauge", "report", "print", "write", "export"} =>
                    /\ f.pos = forPairsDone(Len(f.activeNodes))
                    /\ g.pc # "idle" =>
                          /\ g.heads = f.heads
                          /\ g.splitSize = f.splitSize
                          /\ g.last = f.last
              /\ g.pc \in {"report", "print", "write", "export"} =>
                    gauge' = g.splitSize
              /\ g.pc = "export" /\ f.pc # "export" =>
                    f.pc = "write" /\ ~(files' # files) /\ reportFile'
    /\ gauge' # gauge => \E e \in Executors : frame[e].pc = "gauge"
    /\ reportFile' # reportFile => \E e \in Executors : frame[e].pc = "write"
    /\ files' # files => \E e \in Executors : frame[e].pc = "export"

C12_StepsInOrder == [][C12_Step]_vars

\* C12 witness: a cycle of the loop with three active nodes and a diverging
\* pair has written its report and is exporting headers.
C12_Witness ==
    /\ frame["loop"].pc = "export"
    /\ Len(frame["loop"].activeNodes) = 3
    /\ frame["loop"].searches >= 1
    /\ reportFile
    /\ gauge = frame["loop"].splitSize
    /\ gauge > 0

StrictlyDescending(l) == \A i \in 1..(Len(l) - 1) : l[i] > l[i + 1]

Elements(l) == { l[i] : i \in 1..Len(l) }

\* C13: the height list handed to NewReport is strictly descending (so it has
\* no duplicates) and its elements are exactly the cycle's heads-of-interest.
C13_HeadListDescending ==
    \A e \in Executors :
        LET f == frame[e]
            l == sortDescending(f.heads)
        IN  /\ f.pc = "report" =>
                  /\ StrictlyDescending(l)
                  /\ Elements(l) = f.heads
                  /\ Len(l) = Cardinality(f.heads)
            /\ f.pc \in {"print", "write", "export"} =>
                  /\ f.headList = l
                  /\ StrictlyDescending(f.headList)
                  /\ Elements(f.headList) = f.heads

\* C13 witness: a report was built from three or more heights, among them a
\* divergence boundary that is not a head.
C13_Witness ==
    \E e \in Executors :
        /\ frame[e].pc \in {"print", "write"}
        /\ Len(frame[e].headList) >= 3
        /\ frame[e].headList[1] > frame[e].headList[2]
        /\ \E s \in frame[e].divSplits : s \notin ActiveHeads(frame[e])

\* the nodes of the cycle whose UpdateLatest has succeeded so far
Succeeded(f) == { nodes[i] : i \in { j \in 1..Len(f.polled) : ~f.polled[j] } }

\* C14: the active set is exactly the configured nodes whose UpdateLatest
\* succeeded in this cycle, whatever their status was before: only they are
\* compared, only their heads are recorded, and every configured node is
\* polled in every cycle.
C14_ActiveSetIsPolledOk ==
    \A e \in Executors :
        LET f == frame[e]
        IN  Running(e) =>
              /\ Elements(f.activeNodes) = Succeeded(f)
              /\ Len(f.activeNodes) = Cardinality(Succeeded(f))
              /\ \A i, j \in 1..Len(f.activeNodes) :
                    i < j => f.activeNodes[i] < f.activeNodes[j]
              /\ f.pc # "poll" => Len(f.polled) = Len(nodes)
              /\ f.searches = 0 => f.heads = ActiveHeads(f)
              /\ f.last.kind # "none" =>
                    /\ {f.last.a, f.last.b} \subseteq Succeeded(f)
                    /\ f.last.a # f.last.b
              /\ f.pc = "pairs" =>
                    \A x \in {f.pos[1], f.pos[2]} :
                        f.activeNodes[x + 1] \in Succeeded(f)

\* C14 witness: in a cycle of the loop the first node's poll failed, so the
\* head it had is not recorded and it is in no pair, while the last node,
\* Unreachable before this cycle, is active again.
C14_Witness ==
    LET f == frame["loop"]
    IN  /\ f.pc = "pairs"
        /\ Len(nodes) = 3
        /\ f.polled = <<TRUE, FALSE, FALSE>>
        /\ f.activeNodes = <<2, 3>>
        /\ f.prior = "Unreachable"
        /\ headNum[1] \notin f.heads

\* what a step of a monitor without backend does to the files and to the
\* report: no report file, no export file, and the report is printed once its
\* JSON has been made (a JSON failure returns before the print)
NoBackendFilesAndPrint ==
    /\ ~hasBackend =>
          /\ reportFile' = reportFile
          /\ files' = files
          /\ ~reportFile /\ files = {}
          /\ \A e \in Executors :
                LET f == frame[e]
                    g == frame'[e]
                IN  /\ f.pc \notin {"write", "export"}
                    /\ f.pc = "report" /\ g # f => g.pc \in {"print", "idle"}
                    /\ f.pc = "print" /\ g # f => g.pc = "idle"
    /\ hasBackend => \A e \in Executors : frame[e].pc # "print"

\* C15 as stated: without backend a cycle writes no file, prints the report,
\* and does not update the gauge.
C15_OriginalStep ==
    /\ NoBackendFilesAndPrint
    /\ ~hasBackend => gauge' = gauge

C15_Original == [][C15_OriginalStep]_vars

\* C15 amended: without backend a cycle writes no report file and no export
\* file and prints the report instead, but it does update the gauge, to the
\* cycle's split size, as a cycle with a backend does.
C15_Step ==
    /\ NoBackendFilesAndPrint
    /\ \A e \in Executors :
          frame[e].pc = "gauge" /\ frame'[e] # frame[e] =>
              gauge' = frame[e].splitSize

C15_NoBackendNoFiles == [][C15_Step]_vars

\* C15 witness: a cycle of the loop without backend is printing its report,
\* with the gauge at the cycle's split size and no file written.
C15_Witness ==
    /\ ~hasBackend
    /\ frame["loop"].pc = "print"
    /\ frame["loop"].splitSize > 0
    /\ gauge = frame["loop"].splitSize
    /\ ~reportFile
    /\ files = {}

\* C16: export files are write-once.  A step writes the file of a hash only
\* when none exists: the set of files only grows, by the hash being exported,
\* and no existing file is ever written again or removed; a hash whose
\* header is missing, or whose write fails, gets no file.
C16_Step ==
    /\ files \subseteq files'
    /\ overwrites' = {}
    /\ \A e \in Executors :
          LET f == frame[e]
          IN  f.pc = "export" /\ frame'[e] # f =>
                /\ files' \subseteq files \cup {Head(f.hashes)}
                /\ Head(f.hashes) \in files => files' = files
    /\ (\A e \in Executors : frame[e].pc # "export") => files' = files

C17_Step ==
    \A e \in Executors :
        LET f == frame[e]
            g == frame'[e]
        IN  /\ f.pc = "idle" /\ g.pc # "idle" =>
                  /\ g.heads = {}
                  /\ g.splitSize = 0
                  /\ g.activeNodes = <<>>
                  /\ g.headList = <<>>
            /\ f.pc = "gauge" =>
                  /\ f.heads = ActiveHeads(f)
                                 \cup UNION { Boundary(s) : s \in f.divSplits }
                  /\ f.splitSize = MaxOrZero(f.divLens)
                  /\ g # f =>
                        /\ gauge' = MaxOrZero(f.divLens)
                        /\ f.divSplits = {} => gauge' = 0
            /\ g.pc \in {"print", "write"} /\ g # f =>
                  Elements(g.headList) = ActiveHeads(f)
                                 \cup UNION { Boundary(s) : s \in f.divSplits }

C17_NoCarryOver == [][C17_Step]_vars

\* C17 witness: a cycle of the loop in which no pair diverged is about to
\* update the gauge, which still holds the split size of the cycle before;
\* the height 0 is not among its heads.
C17_Witness ==
    LET f == frame["loop"]
    IN  /\ f.pc = "gauge"
        /\ Len(f.activeNodes) >= 2
        /\ f.divSplits = {}
        /\ f.splitSize = 0
        /\ gauge > 0
        /\ 0 \notin f.heads

\* the hashes of a and b are equal below some height and different from it
\* upward
Monotone(num, a, b) ==
    \E k \in 0..num :
        /\ \A i \in 0..(k - 1) : a[i] = b[i]
        /\ \A i \in k..(num - 1) : a[i] # b[i]

\* C19: whatever the two nodes' hashes below num are, monotone or not,
\* findSplit(num, a, b) returns a height s in 0..num that is a local
\* transition: the hashes are equal at s-1 when s > 0 and differ at s when
\* s < num.
C19_LocalTransition ==
    sDone =>
        /\ sRes \in 0..sNum
        /\ sRes > 0 => sA[sRes - 1] = sB[sRes - 1]
        /\ sRes < sNum => sA[sRes] # sB[sRes]

\* C19 witness: findSplit has returned on hashes that are not monotone, and
\* the height returned is not the first at which they differ.
C19_Witness ==
    /\ sDone
    /\ ~Monotone(sNum, sA, sB)
    /\ \E i \in 0..(sRes - 1) : sA[i] # sB[i]
    /\ sRes < sNum

\* C20: once quitCh is closed the loop begins at most one further cycle.  It
\* begins one only when the timer of the wait in progress had fired by the
\* time the select chooses, never when Stop came during a cycle; after that
\* cycle the select finds only quitCh ready and the loop exits.
C20_Step ==
    /\ cyclesAfterStop' <= 1
    /\ stopMidCycle' => cyclesAfterStop' = 0
    /\ loopPc = "select" /\ loopPc' = "checks" /\ quitClosed =>
          /\ timerFired
          /\ cyclesAfterStop = 0
          /\ ~stopMidCycle
    /\ loopPc = "select" /\ quitClosed /\ cyclesAfterStop = 1 =>
          /\ ~timerFired
          /\ loopPc' # loopPc => loopPc' = "done"
    /\ loopPc = "done" => loopPc' = "done"

C18_Step ==
    /\ loopPc' = "done" /\ loopPc # "done" =>
          /\ loopPc = "select"
          /\ quitClosed
          /\ ~Running("loop")
    /\ LET f == frame["loop"]
           g == frame'["loop"]
       IN  /\ f.pc \in {"poll", "pairs", "gauge"} => g.pc # "idle"
           /\ Running("loop") /\ g # f /\ g.pc # "idle" =>
                 PcRank(g.pc) >= PcRank(f.pc)
           /\ Running("loop") => loopPc = "checks" /\ loopPc' # "done"
    /\ mainPc' = "stopped" /\ mainPc # "stopped" =>
          /\ loopPc = "done"
          /\ ~Running("loop")
          /\ wg = 0
    /\ mainPc = "waiting" /\ Running("loop") => mainPc' = "waiting"

\* C18: once Stop has been called on a started monitor it returns, provided
\* the calls of the cycle in flight return (the fairness of SpecLive); the
\* stop signal is taken at the select only, a cycle in progress runs to its
\* end, and Stop does not return while a call of the cycle is outstanding.
C18_StopLiveNotPreemptive ==
    /\ (mainPc = "waiting") ~> (mainPc = "stopped" /\ loopPc = "done")
    /\ [][C18_Step]_vars

\* C18 witness: Stop was called while a cycle of the loop was in progress;
\* the loop began no further cycle and has exited, and Stop has returned.
C18_Witness ==
    /\ mainPc = "stopped"
    /\ stopMidCycle
    /\ cyclesAfterStop = 0
    /\ loopPc = "done"
    /\ wg = 0
    /\ reportFile

====
